---- MODULE Spec2Model ----
(***************************************************************************)
(* Model of message_screener.py: the evaluation harness evaluate() with    *)
(* its per-case tasks on the asyncio event loop, and the screener          *)
(* validate_query() with its filters keyword_filter, regex_filter and      *)
(* llm_filter.                                                             *)
(*                                                                         *)
(* The event loop is single threaded: a coroutine runs from one suspension *)
(* point to the next.  `running` names the task that holds the loop's      *)
(* thread inside a call that does not suspend (0: the loop is free).       *)
(* Python values are written as tokens: "True", "False", "None", strings.  *)
(***************************************************************************)
EXTENDS Naturals, Sequences, FiniteSets, TLC

\* ------------------------------------------------------------ bounds
MaxCases == 2
MaxFilters == 2

\* ------------------------------------------------------------ Python values
PyTrue == "True"
PyFalse == "False"
PyNone == "None"
\* a non-empty JSON string where a boolean was asked for
PyStr == "'yes'"
\* a key that the dict does not hold
Absent == "absent"

\* bool(v), as `not v` evaluates it
Truthy(v) == v \in {PyTrue, PyStr}

\* ------------------------------------------------------------ inputs
Hello == "hello"
Austin == "looking for software engineers in Austin"
Messages == {Austin, Hello}

\* the labelled records of message_screener_examples.json
Cases ==
    { [message_text |-> Austin, is_request |-> PyTrue],
      [message_text |-> Hello, is_request |-> PyFalse] }

SeqsUpTo(S, n) == UNION { [1..k -> S] : k \in 0..n }

Corpora == SeqsUpTo(Cases, MaxCases)

\* records json.load accepts as well: no message, no expectation, an expectation
\* that is not a boolean
MalformedCases ==
    { [message_text |-> Absent, is_request |-> PyTrue],
      [message_text |-> Hello, is_request |-> Absent],
      [message_text |-> Hello, is_request |-> PyStr] }

LoadableCorpora == SeqsUpTo(Cases \cup MalformedCases, MaxCases)

\* what a screener passed to evaluate() does on a message, once awaited
StubOutcomes == {PyTrue, PyFalse, "raise"}
StubReason(allowed) == IF allowed = PyTrue THEN "" ELSE "not a search"

\* the filter functions of the module, and the lists validate_query may hold
FilterFuncs == {"keyword_filter", "regex_filter", "llm_filter"}
FilterLists == SeqsUpTo(FilterFuncs, MaxFilters)

\* outcomes of the request of llm_filter and of reading its response
FailureKinds ==
    {"transport_error", "auth_error", "no_tool_call", "bad_json", "not_object"}
Responses ==
    { [kind |-> k, is_valid_query |-> Absent, why |-> Absent] : k \in FailureKinds }
    \cup
    { [kind |-> "arguments", is_valid_query |-> q, why |-> w] :
        q \in {Absent, PyTrue, PyFalse, PyNone, PyStr}, w \in {Absent, "rephrase"} }
NoResponse == [kind |-> "none", is_valid_query |-> Absent, why |-> Absent]

VARIABLES
    test_cases,          \* the corpus loaded at import
    message_screener,    \* the argument of evaluate(): "validate_query" or "stub"
    stub,                \* the stub screener: message -> outcome
    filters,             \* the list `filters` of validate_query
    hpc,                 \* where evaluate() is
    error,               \* the exception evaluate() raised, or "none"
    tasks,               \* number of tasks created (len(tasks))
    sleeps,              \* number of stagger sleeps that have elapsed
    st,                  \* state of each task
    result,              \* what the screener returned to each task
    frame,               \* the validate_query call of each task
    running,             \* task holding the event loop, 0 when free
    score, progress, false_negatives, false_positives,
    failed_cases, failed_case_indices,
    out,                 \* the lines printed
    ret                  \* the value evaluate() returned

inputs == <<test_cases, message_screener, stub, filters>>
counters == <<score, progress, false_negatives, false_positives,
              failed_cases, failed_case_indices, out>>
vars == <<test_cases, message_screener, stub, filters, hpc, error, tasks, sleeps,
          st, result, frame, running, score, progress, false_negatives,
          false_positives, failed_cases, failed_case_indices, out, ret>>

total_cases == Len(test_cases)
TaskIds == 1..total_cases

NoFrame == [pos |-> 0, calls |-> <<>>, pending |-> FALSE, ret |-> <<>>]
NoResult == "none"
NoReturn == <<>>

DefaultFilters == <<"llm_filter">>
DefaultStub == [m \in Messages |-> PyTrue]

InitWith(corpora) ==
    /\ test_cases \in corpora
    /\ message_screener \in {"validate_query", "stub"}
    /\ filters \in (IF message_screener = "validate_query"
                    THEN FilterLists ELSE {DefaultFilters})
    /\ stub \in (IF message_screener = "stub"
                 THEN [Messages -> StubOutcomes] ELSE {DefaultStub})
    /\ hpc = "start"
    /\ error = "none"
    /\ tasks = 0
    /\ sleeps = 0
    /\ st = [t \in TaskIds |-> "NotCreated"]
    /\ result = [t \in TaskIds |-> NoResult]
    /\ frame = [t \in TaskIds |-> NoFrame]
    /\ running = 0
    /\ score = 0
    /\ progress = 0
    /\ false_negatives = 0
    /\ false_positives = 0
    /\ failed_cases = <<>>
    /\ failed_case_indices = <<>>
    /\ out = <<>>
    /\ ret = NoReturn

\* the module is imported with a corpus of well-formed records
Init == InitWith(Corpora)

\* the module is imported with whatever json.load read
InitLoaded == InitWith(LoadableCorpora)

\* ------------------------------------------------------------ evaluate()
Summary ==
    [line |-> "summary", failed |-> failed_case_indices, score |-> score,
     total |-> total_cases, false_negatives |-> false_negatives,
     false_positives |-> false_positives]

\* evaluate() up to its first suspension: the counters, the first task, the sleep.
\* With no test case the loop and gather() do not suspend and the division raises.
EvaluateStart ==
    /\ hpc = "start"
    /\ IF total_cases = 0
       THEN /\ out' = Append(out, Summary)
            /\ hpc' = "raised"
            /\ error' = "ZeroDivisionError"
            /\ UNCHANGED <<tasks, st>>
       ELSE /\ tasks' = 1
            /\ st' = [st EXCEPT ![1] = "Created"]
            /\ hpc' = "sleep"
            /\ UNCHANGED <<out, error>>
    /\ UNCHANGED <<inputs, sleeps, result, frame, running, score, progress,
                   false_negatives, false_positives, failed_cases,
                   failed_case_indices, ret>>

\* a loop that awaits each task before it goes on
NoneReadyAwaited == \A t \in TaskIds : st[t] \notin {"Created", "Classifying"}

\* a task made by create_task() is started in the loop's next iteration, before
\* the timer of the sleep that follows its creation can fire
NoneReady == \A t \in TaskIds : st[t] # "Created"

\* a loop without `await asyncio.sleep(0.1)`: the next task at once
LaunchNoPause ==
    /\ hpc = "sleep"
    /\ running = 0
    /\ tasks < total_cases
    /\ tasks' = tasks + 1
    /\ st' = [st EXCEPT ![tasks + 1] = "Created"]
    /\ UNCHANGED <<inputs, hpc, error, sleeps, result, frame, running, counters, ret>>

\* the sleep elapses and the loop creates the next task, then sleeps again
Launch ==
    /\ hpc = "sleep"
    /\ running = 0
    /\ NoneReady
    /\ tasks < total_cases
    /\ sleeps' = sleeps + 1
    /\ tasks' = tasks + 1
    /\ st' = [st EXCEPT ![tasks + 1] = "Created"]
    /\ UNCHANGED <<inputs, hpc, error, result, frame, running, counters, ret>>

\* the sleep after the last task elapses and evaluate() awaits gather(*tasks)
Gather ==
    /\ hpc = "sleep"
    /\ running = 0
    /\ NoneReady
    /\ tasks = total_cases
    /\ sleeps' = sleeps + 1
    /\ hpc' = "gather"
    /\ UNCHANGED <<inputs, error, tasks, st, result, frame, running, counters, ret>>

\* a wait that ends with the first finished task
GatherDoneFirst == \E t \in TaskIds : st[t] = "Completed"

\* gather() has a result when every task has finished without an exception
GatherDone == \A t \in TaskIds : st[t] = "Completed"

\* gather() raises as soon as one task has finished with an exception
GatherFailed == \E t \in TaskIds : st[t] = "Failed"

\* the quotient the wrong way round
TrueDivInverted(a, b) == <<b, a>>

\* a / b of two ints, kept as the fraction <<a, b>>
TrueDiv(a, b) == <<a, b>>

GatherReturn ==
    /\ hpc = "gather"
    /\ running = 0
    /\ GatherDone
    /\ out' = Append(out, Summary)
    /\ ret' = TrueDiv(score, total_cases)
    /\ hpc' = "returned"
    /\ UNCHANGED <<inputs, error, tasks, sleeps, st, result, frame, running,
                   score, progress, false_negatives, false_positives,
                   failed_cases, failed_case_indices>>

\* test_case["message_text"] or test_case["is_request"] of a record without the key
KeyError(t) == Absent \in {test_cases[t].message_text, test_cases[t].is_request}

\* the exception a failed task ended with
TaskException(t) == IF KeyError(t) THEN "KeyError" ELSE "ScreenerError"

GatherRaise ==
    /\ hpc = "gather"
    /\ running = 0
    /\ GatherFailed
    /\ hpc' = "raised"
    /\ error' \in { TaskException(t) : t \in { u \in TaskIds : st[u] = "Failed" } }
    /\ UNCHANGED <<inputs, tasks, sleeps, st, result, frame, running, counters, ret>>

\* asyncio.run(main()) after main() raised: the tasks still pending are cancelled
Shutdown ==
    /\ hpc = "raised"
    /\ running = 0
    /\ hpc' = "crashed"
    /\ st' = [t \in TaskIds |->
                IF st[t] \in {"Created", "Classifying"} THEN "Cancelled" ELSE st[t]]
    /\ frame' = [t \in TaskIds |-> NoFrame]
    /\ UNCHANGED <<inputs, error, tasks, sleeps, result, running, counters, ret>>

\* ------------------------------------------------------------ the filters
Returned(flag, reason) == [raised |-> FALSE, flag |-> flag, reason |-> reason]
Raised == [raised |-> TRUE, flag |-> PyNone, reason |-> ""]

\* the lower-cased fragments `keyword in message_text.lower()` and re.search look for
Fragments(message_text) ==
    IF message_text = Hello THEN {"hello"}
    ELSE {"looking for", "software engineers", "austin"}

keywords == <<>>
patterns == <<>>

keyword_filter(message_text) ==
    IF \E i \in DOMAIN keywords : keywords[i] \in Fragments(message_text)
    THEN Returned(PyFalse, "Response message indicating keyword match.")
    ELSE Returned(PyTrue, "")

regex_filter(message_text) ==
    IF \E i \in DOMAIN patterns : patterns[i] \in Fragments(message_text)
    THEN Returned(PyFalse, "Response message indicating regex match.")
    ELSE Returned(PyTrue, "")

ErrorMessage == "Error validating search, please try again."

\* arguments.get(key, default)
DictGet(value, default) == IF value = Absent THEN default ELSE value

\* a statement of the try block raises: create() on a transport or authentication
\* failure, tool_calls[0] without a tool call, json.loads on bad JSON, .get on
\* arguments that are not an object
TryRaises(resp) == resp.kind \in FailureKinds

\* llm_filter without its try/except
llm_filter_unguarded(resp) ==
    IF TryRaises(resp)
    THEN Raised
    ELSE Returned(DictGet(resp.is_valid_query, PyFalse), DictGet(resp.why, ""))

\* llm_filter, given what its one request came back with
llm_filter(resp) ==
    IF TryRaises(resp)
    THEN Returned(PyFalse, ErrorMessage)
    ELSE Returned(DictGet(resp.is_valid_query, PyFalse), DictGet(resp.why, ""))

\* ------------------------------------------------------------ process_test_case
\* the else branch of `if is_request` left out
OutcomeDropped(res, is_request) ==
    IF res # is_request
    THEN (IF Truthy(is_request) THEN "false_negative" ELSE "dropped")
    ELSE "correct"

\* the counters of the two mismatch branches exchanged
OutcomeSwapped(res, is_request) ==
    IF res # is_request
    THEN (IF Truthy(is_request) THEN "false_positive" ELSE "false_negative")
    ELSE "correct"

\* a mismatch on a case that expects False taken for a correct answer
OutcomeLenient(res, is_request) ==
    IF res # is_request /\ Truthy(is_request) THEN "false_negative" ELSE "correct"

\* the branch taken on the screener's result
Outcome(res, is_request) ==
    IF res # is_request
    THEN (IF Truthy(is_request) THEN "false_negative" ELSE "false_positive")
    ELSE "correct"

FailedCase(t, res, reason) ==
    [message |-> test_cases[t].message_text, expected |-> test_cases[t].is_request,
     got |-> res, reason |-> reason]

FailureLine(t, res, reason) ==
    [line |-> "failed", message |-> test_cases[t].message_text,
     expected |-> test_cases[t].is_request, got |-> res, reason |-> reason]

\* the line printed before `progress += 1`
ProgressLineStale(n) == [line |-> "progress", completed |-> n - 1, total |-> total_cases]

ProgressLine(n) == [line |-> "progress", completed |-> n, total |-> total_cases]

\* `counter = 1` for `counter += 1`: the updates of the other tasks are lost
BumpLost(counter, hit) == IF hit THEN 1 ELSE counter

\* `counter += 1` in the branch taken
Bump(counter, hit) == counter + (IF hit THEN 1 ELSE 0)

\* the index taken after `progress += 1`
CompletionIndexAfter(t) == progress + 1

\* the position of the case in the corpus
CompletionIndexCorpus(t) == t - 1

\* failed_case_indices.append(progress): the tasks completed before task t
CompletionIndex(t) == progress

\* the task resumes with the screener's result and records it
Record(t, res, reason) ==
    LET o == Outcome(res, test_cases[t].is_request) IN
    /\ false_negatives' = Bump(false_negatives, o = "false_negative")
    /\ false_positives' = Bump(false_positives, o = "false_positive")
    /\ score' = Bump(score, o = "correct")
    /\ failed_cases' =
         IF o = "correct" THEN failed_cases
         ELSE Append(failed_cases, FailedCase(t, res, reason))
    /\ failed_case_indices' =
         IF o = "correct" THEN failed_case_indices
         ELSE Append(failed_case_indices, CompletionIndex(t))
    /\ progress' = progress + 1
    /\ out' = (IF o = "correct" THEN out ELSE Append(out, FailureLine(t, res, reason)))
              \o <<ProgressLine(progress + 1)>>
    /\ result' = [result EXCEPT ![t] = res]
    /\ st' = [st EXCEPT ![t] = "Completed"]

\* the exception of the screener ends the task
Fail(t) ==
    /\ st' = [st EXCEPT ![t] = "Failed"]
    /\ UNCHANGED <<result, counters>>

\* the loop starts a created task: it reads its test case, which raises KeyError
\* on a missing key, and calls the screener.
\* The stub suspends the task; validate_query runs on the loop's thread.
TaskStart(t) ==
    /\ st[t] = "Created"
    /\ running = 0
    /\ hpc # "crashed"
    /\ IF KeyError(t)
       THEN /\ st' = [st EXCEPT ![t] = "Failed"]
            /\ UNCHANGED <<frame, running>>
       ELSE /\ st' = [st EXCEPT ![t] = "Classifying"]
            /\ IF message_screener = "validate_query"
               THEN /\ frame' = [frame EXCEPT ![t] = [NoFrame EXCEPT !.pos = 1]]
                    /\ running' = t
               ELSE UNCHANGED <<frame, running>>
    /\ UNCHANGED <<inputs, hpc, error, tasks, sleeps, result, counters, ret>>

StubReturn(t) ==
    /\ st[t] = "Classifying"
    /\ message_screener = "stub"
    /\ running = 0
    /\ stub[test_cases[t].message_text] # "raise"
    /\ Record(t, stub[test_cases[t].message_text],
              StubReason(stub[test_cases[t].message_text]))
    /\ UNCHANGED <<inputs, hpc, error, tasks, sleeps, frame, running, ret>>

StubRaise(t) ==
    /\ st[t] = "Classifying"
    /\ message_screener = "stub"
    /\ running = 0
    /\ stub[test_cases[t].message_text] = "raise"
    /\ Fail(t)
    /\ UNCHANGED <<inputs, hpc, error, tasks, sleeps, frame, running, ret>>

\* ------------------------------------------------------------ validate_query
InChain(t) ==
    /\ running = t
    /\ st[t] = "Classifying"
    /\ frame[t].ret = <<>>

Call(pos, name, resp, r) ==
    [pos |-> pos, filter |-> name, response |-> resp, returned |-> r]

\* `if not is_request: return (False, response_message)`, else the next filter
Rejects(r) == ~Truthy(r.flag)

\* a loop that does not return on a rejection
ChainStepNoStop(f, r) == [f EXCEPT !.pos = @ + 1]

\* a loop that hands on the filter's own flag
ChainStepEcho(f, r) ==
    IF Rejects(r)
    THEN [f EXCEPT !.ret = <<r.flag, r.reason>>]
    ELSE [f EXCEPT !.pos = @ + 1]

\* the body of the loop once the filter came back with r: return, or go on
ChainStep(f, r) ==
    IF Rejects(r)
    THEN [f EXCEPT !.ret = <<PyFalse, r.reason>>]
    ELSE [f EXCEPT !.pos = @ + 1]

\* validate_query after its filter at frame[t].pos came back with r; an exception
\* of the filter leaves validate_query and process_test_case
AfterFilter(t, name, resp, r) ==
    LET f == [frame[t] EXCEPT !.calls = Append(@, Call(frame[t].pos, name, resp, r)),
                              !.pending = FALSE] IN
    IF r.raised
    THEN /\ frame' = [frame EXCEPT ![t] = NoFrame]
         /\ running' = 0
         /\ Fail(t)
    ELSE /\ frame' = [frame EXCEPT ![t] = ChainStep(f, r)]
         /\ UNCHANGED <<running, st, result, counters>>

LocalFilter(name, message_text) ==
    IF name = "keyword_filter" THEN keyword_filter(message_text)
    ELSE regex_filter(message_text)

InvokeLocalFilter(t) ==
    /\ InChain(t)
    /\ frame[t].pos <= Len(filters)
    /\ filters[frame[t].pos] \in {"keyword_filter", "regex_filter"}
    /\ ~frame[t].pending
    /\ AfterFilter(t, filters[frame[t].pos], NoResponse,
                   LocalFilter(filters[frame[t].pos], test_cases[t].message_text))
    /\ UNCHANGED <<inputs, hpc, error, tasks, sleeps, ret>>

\* llm_filter sends its request with the blocking client: the thread waits
LlmRequest(t) ==
    /\ InChain(t)
    /\ frame[t].pos <= Len(filters)
    /\ filters[frame[t].pos] = "llm_filter"
    /\ ~frame[t].pending
    /\ frame' = [frame EXCEPT ![t].pending = TRUE]
    /\ UNCHANGED <<inputs, hpc, error, tasks, sleeps, st, result, running,
                   counters, ret>>

LlmResponse(t, resp) ==
    /\ InChain(t)
    /\ frame[t].pending
    /\ AfterFilter(t, "llm_filter", resp, llm_filter(resp))
    /\ UNCHANGED <<inputs, hpc, error, tasks, sleeps, ret>>

\* the loop over the filters is exhausted
ChainPass(t) ==
    /\ InChain(t)
    /\ frame[t].pos > Len(filters)
    /\ frame' = [frame EXCEPT ![t].ret = <<PyTrue, PyNone>>]
    /\ UNCHANGED <<inputs, hpc, error, tasks, sleeps, st, result, running,
                   counters, ret>>

\* validate_query returns to process_test_case, which records and finishes
ScreenerReturn(t) ==
    /\ running = t
    /\ st[t] = "Classifying"
    /\ frame[t].ret # <<>>
    /\ Record(t, frame[t].ret[1], frame[t].ret[2])
    /\ frame' = [frame EXCEPT ![t] = NoFrame]
    /\ running' = 0
    /\ UNCHANGED <<inputs, hpc, error, tasks, sleeps, ret>>

\* ------------------------------------------------------------ specification
Next ==
    \/ EvaluateStart
    \/ Launch
    \/ Gather
    \/ GatherReturn
    \/ GatherRaise
    \/ Shutdown
    \/ \E t \in TaskIds : TaskStart(t)
    \/ \E t \in TaskIds : StubReturn(t)
    \/ \E t \in TaskIds : StubRaise(t)
    \/ \E t \in TaskIds : InvokeLocalFilter(t)
    \/ \E t \in TaskIds : LlmRequest(t)
    \/ \E t \in TaskIds, resp \in Responses : LlmResponse(t, resp)
    \/ \E t \in TaskIds : ChainPass(t)
    \/ \E t \in TaskIds : ScreenerReturn(t)

Spec == Init /\ [][Next]_vars

\* the same program on a corpus that was not validated
SpecLoaded == InitLoaded /\ [][Next]_vars

\* the event loop runs whatever is ready: timers fire, started tasks run, and the
\* awaited screener and the remote service answer
FairSpec == Init /\ [][Next]_vars /\ WF_vars(Next)

\* ------------------------------------------------------------ properties
Expected(t) == test_cases[t].is_request
Recorded == { t \in TaskIds : result[t] # NoResult }
Count(S) == Cardinality(S)

\* evaluate() is past `await asyncio.gather(*tasks)`
PastBarrier == hpc = "returned" \/ error = "ZeroDivisionError"

\* C1: once evaluate() is past its join barrier, exactly N outcomes have been
\* recorded and score + false_positives + false_negatives = N.
C1_AllOutcomesCounted ==
    PastBarrier =>
        /\ Count(Recorded) = total_cases
        /\ progress = total_cases
        /\ score + false_positives + false_negatives = total_cases

C1_Witness ==
    /\ hpc = "returned"
    /\ total_cases = 2
    /\ score = 1
    /\ false_positives + false_negatives = 1

\* C2: a step that completes a task whose result differs from the expectation adds
\* one to false_negatives (expected True) or to false_positives (expected False)
\* and leaves the other counters alone; one whose result equals the expectation adds
\* one to score only; a step that completes no task changes no counter.
C2_OneCounterPerOutcome ==
    [][ /\ \A t \in TaskIds :
            (st[t] # "Completed" /\ st'[t] = "Completed") =>
                /\ (result'[t] # Expected(t) /\ Expected(t) = PyTrue) =>
                       /\ false_negatives' = false_negatives + 1
                       /\ false_positives' = false_positives
                       /\ score' = score
                /\ (result'[t] # Expected(t) /\ Expected(t) = PyFalse) =>
                       /\ false_positives' = false_positives + 1
                       /\ false_negatives' = false_negatives
                       /\ score' = score
                /\ (result'[t] = Expected(t)) =>
                       /\ score' = score + 1
                       /\ false_positives' = false_positives
                       /\ false_negatives' = false_negatives
        /\ (\A t \in TaskIds : st[t] = "Completed" <=> st'[t] = "Completed") =>
               UNCHANGED <<score, false_positives, false_negatives>>
      ]_vars

C2_Witness ==
    /\ false_negatives = 1
    /\ false_positives = 1
    /\ score = 0
    /\ Count({ t \in TaskIds : st[t] = "Completed" }) = 2

\* what the screener answers on the message of task t
Allowed(t) ==
    IF message_screener = "stub" THEN stub[test_cases[t].message_text] ELSE result[t]

StubAgrees == message_screener = "stub" /\ \A t \in TaskIds : stub[test_cases[t].message_text] = Expected(t)
StubRejects == message_screener = "stub" /\ \A m \in Messages : stub[m] = PyFalse

\* C3: when evaluate() has returned, score is the number of cases the screener
\* answered as expected, false_negatives the number of cases expecting True that it
\* rejected, false_positives the number of cases expecting False that it allowed;
\* a screener that agrees everywhere scores N of N with no false positive or
\* negative, one that always rejects has no false positive and one false negative
\* for each case expecting True.
C3_FinalStatistics ==
    hpc = "returned" =>
        /\ score = Count({ t \in TaskIds : Allowed(t) = Expected(t) })
        /\ false_negatives =
             Count({ t \in TaskIds : Expected(t) = PyTrue /\ Allowed(t) = PyFalse })
        /\ false_positives =
             Count({ t \in TaskIds : Expected(t) = PyFalse /\ Allowed(t) = PyTrue })
        /\ ret = <<score, total_cases>>
        /\ StubAgrees =>
             ret = <<total_cases, total_cases>> /\ false_positives = 0 /\ false_negatives = 0
        /\ StubRejects =>
             /\ false_positives = 0
             /\ false_negatives = Count({ t \in TaskIds : Expected(t) = PyTrue })

\* scenario B: the two-case corpus and a screener that always rejects, score 1/2
C3_Witness ==
    /\ hpc = "returned"
    /\ StubRejects
    /\ test_cases = << [message_text |-> Austin, is_request |-> PyTrue],
                       [message_text |-> Hello, is_request |-> PyFalse] >>
    /\ ret = <<1, 2>>
    /\ false_negatives = 1

SummaryPrinted == \E i \in DOMAIN out : out[i].line = "summary"

\* C4: evaluate() returns, and prints its summary for a corpus that is not empty,
\* only when every one of the N tasks has been launched and has recorded its outcome.
C4_JoinBarrier ==
    (hpc = "returned" \/ (SummaryPrinted /\ total_cases > 0)) =>
        /\ tasks = total_cases
        /\ \A t \in TaskIds : st[t] = "Completed" /\ result[t] # NoResult

\* both tasks failed their case and the second launched completed first
C4_Witness ==
    /\ hpc = "returned"
    /\ message_screener = "stub"
    /\ total_cases = 2
    /\ failed_case_indices = <<0, 1>>
    /\ failed_cases[1].message = test_cases[2].message_text
    /\ failed_cases[2].message = test_cases[1].message_text
    /\ test_cases[1] # test_cases[2]

\* C5: when the screener call of a task has raised, evaluate() does not end with
\* that exception and no other task is cut short.
C5_FailureIsolated ==
    (\E t \in TaskIds : st[t] = "Failed") =>
        /\ hpc \notin {"raised", "crashed"}
        /\ \A u \in TaskIds : st[u] # "Cancelled"

\* the task waits for its screener: for the awaited stub, or for the response to
\* the request of llm_filter
AwaitingScreener(t) ==
    /\ st[t] = "Classifying"
    /\ message_screener = "validate_query" => frame[t].pending

\* C6: a task that awaits the screener's result, in particular the round trip of
\* llm_filter, is suspended: it does not hold the event loop, so that other tasks
\* can be launched and be classifying at the same time.
C6_ClassifyingSuspends ==
    \A t \in TaskIds : AwaitingScreener(t) => running # t

Calls(t) == frame[t].calls

\* C7: the filters invoked for a message are the filters at positions 1, 2, ... of
\* the list, each once and in list order, and none is invoked after a filter that
\* rejected: when the filter at position k rejects, exactly k filters were invoked.
C7_ShortCircuit ==
    \A t \in TaskIds :
        /\ Len(Calls(t)) <= Len(filters)
        /\ \A i \in DOMAIN Calls(t) :
              /\ Calls(t)[i].pos = i
              /\ Calls(t)[i].filter = filters[i]
              /\ i < Len(Calls(t)) => ~Rejects(Calls(t)[i].returned)
        /\ (Calls(t) # <<>> /\ Rejects(Calls(t)[Len(Calls(t))].returned)) =>
              /\ ~frame[t].pending
              /\ frame[t].ret # <<>>
              /\ frame[t].pos = Len(Calls(t))

C7_Witness ==
    \E t \in TaskIds :
        /\ Len(filters) = 2
        /\ Len(Calls(t)) = 1
        /\ Rejects(Calls(t)[1].returned)
        /\ frame[t].ret # <<>>

FirstRejecting(calls) ==
    CHOOSE i \in DOMAIN calls :
        /\ Rejects(calls[i].returned)
        /\ \A j \in 1..(i - 1) : ~Rejects(calls[j].returned)

SomeRejects(calls) == \E i \in DOMAIN calls : Rejects(calls[i].returned)

LlmCalls(t) == { i \in DOMAIN Calls(t) : Calls(t)[i].filter = "llm_filter" }

\* C9: when its request fails in transport or authentication, or its response
\* cannot be parsed, llm_filter returns (False, a non-empty string); no exception
\* of llm_filter reaches validate_query or the task.
C9_FailsClosed ==
    /\ \A t \in TaskIds : \A i \in LlmCalls(t) :
          Calls(t)[i].response.kind \in FailureKinds =>
              /\ ~Calls(t)[i].returned.raised
              /\ Calls(t)[i].returned.flag = PyFalse
              /\ Calls(t)[i].returned.reason # ""
    /\ message_screener = "validate_query" => \A t \in TaskIds : st[t] # "Failed"

C9_Witness ==
    \E t \in TaskIds : \E i \in LlmCalls(t) :
        /\ Calls(t)[i].response.kind = "transport_error"
        /\ Calls(t)[i].returned = Returned(PyFalse, ErrorMessage)
        /\ frame[t].ret = <<PyFalse, ErrorMessage>>

\* the decision object breaks the schema of the tool
SchemaViolation(resp) ==
    /\ resp.kind = "arguments"
    /\ \/ resp.is_valid_query \notin {PyTrue, PyFalse}
       \/ resp.is_valid_query = PyFalse /\ resp.why = Absent

\* C10: on a response that breaks the schema llm_filter returns what it returns on
\* a transport failure, (False, the retry message).
C10_SchemaViolationFailsClosed ==
    \A t \in TaskIds : \A i \in LlmCalls(t) :
        SchemaViolation(Calls(t)[i].response) =>
            Calls(t)[i].returned = llm_filter([kind |-> "transport_error",
                                               is_valid_query |-> Absent,
                                               why |-> Absent])

\* a record without a message, or without a boolean expectation
Malformed(case) ==
    \/ case.message_text = Absent
    \/ case.is_request \notin {PyTrue, PyFalse}

MalformedCorpus == \E i \in DOMAIN test_cases : Malformed(test_cases[i])

\* C11: with a malformed record in the corpus the evaluation stops at load time: no
\* task is ever launched, so no task meets the defect while it runs.
C11_MalformedFailsAtLoad ==
    MalformedCorpus =>
        /\ tasks = 0
        /\ \A t \in TaskIds : st[t] = "NotCreated"

\* C12: evaluate() rejects an empty corpus before it prints its summary and divides
\* by total_cases.
C12_EmptyCorpusRejected ==
    total_cases = 0 =>
        /\ error # "ZeroDivisionError"
        /\ ~SummaryPrinted

\* the fraction <<a, b>> lies in [0, 1]
InUnitInterval(q) == q[2] > 0 /\ 0 <= q[1] /\ q[1] <= q[2]

\* C13: the value evaluate() returns is score / N with N > 0 and 0 <= score <= N, a
\* number in [0, 1].
C13_ScoreInUnitInterval ==
    hpc = "returned" =>
        /\ total_cases > 0
        /\ ret # NoReturn
        /\ ret[1] = score
        /\ ret[2] = total_cases
        /\ InUnitInterval(ret)

\* one case of two answered as expected: 0 < score / N < 1
C13_Witness ==
    /\ hpc = "returned"
    /\ message_screener = "validate_query"
    /\ ret = <<1, 2>>

\* task t is created in this step
Launched(t) == st[t] = "NotCreated" /\ st'[t] # "NotCreated"

\* C14: tasks are launched in corpus order, one at a time; the launch of task t > 1
\* is the step in which the sleep that follows the launch of task t - 1 elapses,
\* whatever the earlier tasks have done, so that t - 1 sleeps have elapsed when task
\* t is launched and never more than sleeps + 1 tasks exist.
C14_StaggeredLaunch ==
    [][ /\ \A t \in TaskIds :
              Launched(t) =>
                  /\ t = tasks + 1
                  /\ tasks' = t
                  /\ \A u \in 1..(t - 1) : st[u] # "NotCreated"
                  /\ \A u \in TaskIds : u # t => st'[u] = st[u]
                  /\ t > 1 => (hpc = "sleep" /\ sleeps' = sleeps + 1)
                  /\ sleeps' >= t - 1
        /\ tasks' <= sleeps' + 1
      ]_vars

\* the second task is launched while the first still awaits its screener
C14_Witness ==
    /\ total_cases = 2
    /\ tasks = 2
    /\ sleeps = 1
    /\ st[1] = "Classifying"
    /\ st[2] = "Created"

Completed == { t \in TaskIds : st[t] = "Completed" }
StubAnswer(t) == stub[test_cases[t].message_text]
Range(f) == { f[i] : i \in DOMAIN f }

\* C15: with a deterministic screener the counters are fixed by the set of tasks
\* that have completed, not by the order in which they did: score, false_negatives
\* and false_positives count the completed cases of each kind, failed_cases holds
\* the failed cases whatever their order, and at the return the three counters are
\* the counts over the whole corpus.
C15_OrderIndependentCounters ==
    message_screener = "stub" =>
        /\ score = Count({ t \in Completed : StubAnswer(t) = Expected(t) })
        /\ false_negatives =
             Count({ t \in Completed : StubAnswer(t) # Expected(t) /\ Expected(t) = PyTrue })
        /\ false_positives =
             Count({ t \in Completed : StubAnswer(t) # Expected(t) /\ Expected(t) = PyFalse })
        /\ Range(failed_cases) =
             { FailedCase(t, StubAnswer(t), StubReason(StubAnswer(t))) :
                 t \in { u \in Completed : StubAnswer(u) # Expected(u) } }
        /\ hpc = "returned" => Completed = TaskIds

\* the second task has completed and been counted while the first still awaits
C15_Witness ==
    /\ message_screener = "stub"
    /\ total_cases = 2
    /\ st[1] = "Classifying"
    /\ st[2] = "Completed"
    /\ false_positives = 1
    /\ failed_case_indices = <<0>>

\* the steps of the state machine of a task
TaskSteps ==
    { <<"NotCreated", "Created">>, <<"Created", "Classifying">>,
      <<"Classifying", "Completed">> }

\* C16: a task moves only Created -> Classifying -> Completed, each step once: the
\* screener is called once for its case, the statistics change exactly in the step
\* that completes a task and by one outcome, and a completed task stays completed.
C16_TaskStateMachine ==
    [][ /\ \A t \in TaskIds :
              /\ st'[t] # st[t] => <<st[t], st'[t]>> \in TaskSteps
              /\ st[t] = "Completed" => (st'[t] = "Completed" /\ result'[t] = result[t])
        /\ progress' = progress + Count({ t \in TaskIds : st[t] # "Completed" /\ st'[t] = "Completed" })
        /\ progress' \in {progress, progress + 1}
        /\ progress' = progress => UNCHANGED <<score, false_negatives, false_positives,
                                               failed_cases, failed_case_indices>>
      ]_vars

\* task t records its outcome in this step
Completes(t) == st[t] # "Completed" /\ st'[t] = "Completed"

Last(q) == q[Len(q)]

\* C17: a task that completes with a mismatch appends one outcome to failed_cases
\* and one index to failed_case_indices, the number of tasks completed before it; a
\* task that completes with a match appends nothing; in every state failed_cases
\* and failed_case_indices are as long as false_positives + false_negatives.
C17_FailureLists ==
    /\ [](/\ Len(failed_cases) = Len(failed_case_indices)
          /\ Len(failed_cases) = false_positives + false_negatives)
    /\ [][ \A t \in TaskIds :
             Completes(t) =>
                 IF result'[t] # Expected(t)
                 THEN /\ Len(failed_cases') = Len(failed_cases) + 1
                      /\ SubSeq(failed_cases', 1, Len(failed_cases)) = failed_cases
                      /\ Last(failed_cases').message = test_cases[t].message_text
                      /\ Last(failed_cases').expected = Expected(t)
                      /\ Last(failed_cases').got = result'[t]
                      /\ failed_case_indices' = Append(failed_case_indices, Count(Completed))
                 ELSE UNCHANGED <<failed_cases, failed_case_indices>>
         ]_vars

\* the first task matched, the second did not: its index is 1
C17_Witness ==
    /\ Len(failed_cases) = 1
    /\ failed_case_indices = <<1>>
    /\ false_negatives = 1
    /\ score = 1

ProgressLines == SelectSeq(out, LAMBDA l : l.line = "progress")
FailureLines == SelectSeq(out, LAMBDA l : l.line = "failed")

\* C18: one progress line is printed for each completion and carries the number of
\* tasks completed so far, so the lines read 1/N, 2/N, ... in that order and
\* progress = score + false_positives + false_negatives <= N; one failure line is
\* printed for each mismatch, with its message, expectation, result and reason, and
\* none for a match.
C18_Observations ==
    /\ progress = Count(Completed)
    /\ progress = score + false_positives + false_negatives
    /\ progress <= total_cases
    /\ Len(ProgressLines) = progress
    /\ \A i \in DOMAIN ProgressLines :
          /\ ProgressLines[i].completed = i
          /\ ProgressLines[i].total = total_cases
    /\ Len(FailureLines) = Len(failed_cases)
    /\ \A i \in DOMAIN FailureLines :
          /\ FailureLines[i].message = failed_cases[i].message
          /\ FailureLines[i].expected = failed_cases[i].expected
          /\ FailureLines[i].got = failed_cases[i].got
          /\ FailureLines[i].reason = failed_cases[i].reason
          /\ FailureLines[i].got # FailureLines[i].expected
    /\ Len(FailureLines) =
          Count({ t \in Completed : result[t] # Expected(t) })

\* a match, then a mismatch: progress 1/2, the failure, progress 2/2, the summary
C18_Witness ==
    /\ hpc = "returned"
    /\ Len(out) = 4
    /\ out[1].line = "progress" /\ out[1].completed = 1
    /\ out[2].line = "failed"
    /\ out[3].line = "progress" /\ out[3].completed = 2
    /\ out[4].line = "summary"

\* C19: failed_case_indices is strictly increasing, so without duplicates, and each
\* of its entries lies in 0..N-1.
C19_FailedIndicesIncreasing ==
    /\ \A i \in DOMAIN failed_case_indices :
          /\ failed_case_indices[i] >= 0
          /\ failed_case_indices[i] <= total_cases - 1
    /\ \A i, j \in DOMAIN failed_case_indices :
          i < j => failed_case_indices[i] < failed_case_indices[j]

\* two failures, the case launched second failing first
C19_Witness ==
    /\ failed_case_indices = <<0, 1>>
    /\ failed_cases[1].message = Hello
    /\ test_cases[1].message_text = Austin

\* every call of the screener comes back with a result
ScreenerAnswers ==
    message_screener = "stub" => \A t \in TaskIds : StubAnswer(t) # "raise"

\* the sleep of the launch loop can end: the loop's thread is free and the task
\* made before the sleep has been started
LaunchDue ==
    /\ hpc = "sleep"
    /\ tasks < total_cases
    /\ running = 0
    /\ \A t \in TaskIds : st[t] # "Created"

====
